---- MODULE Spec2Model ----
(***************************************************************************)
(* PHATE (Python/phate/phate.py): the kernel, the diffusion operator, the  *)
(* diffusion potential and the caching estimator class PHATE.              *)
(*                                                                         *)
(* Numbers.  The code computes in float64.  Here a kernel, operator or     *)
(* matrix-power entry is a fixed-point number counted in units of machine  *)
(* epsilon: MachEps is one unit and One units are 1.0, so a value below    *)
(* one unit underflows to 0 as exp() does in float64.  NaN and Inf are     *)
(* two values outside the naturals with IEEE-754 arithmetic.  Distances    *)
(* and scaled distances are fixed-point in units of 1/DistUnit.            *)
(* The input matrix is n x 1: a sequence of N integer coordinates.         *)
(***************************************************************************)
EXTENDS Integers, Sequences, FiniteSets, TLC

\* ------------------------------------------------------------------ bounds
N == 3          \* number of observations (rows of the input matrix)

\* --------------------------------------------------------- float64 values
NaN == -1       \* numpy nan
Inf == -2       \* numpy inf
One == 16       \* 1.0, in units of machine epsilon
MachEps == 1    \* np.finfo(float).eps
DistUnit == 1000  \* 1.0 of a (scaled) distance
DistCap == 20000  \* scaled distances saturate here: exp(-20) is 0 anyway

None == <<>>    \* Python None for arrays and optional integers
NoneStr == "None"  \* Python None where a string is expected

Idx == 1..N

Min(x, y) == IF x <= y THEN x ELSE y
Abs(x) == IF x < 0 THEN 0 - x ELSE x

\* an array held by value: every entry is computed once, when the array is made
Array(f) == f @@ <<>>
\* the n x n array with entries e(i, j)
Matrix(e(_, _)) == Array([i \in Idx |-> Array([j \in Idx |-> e(i, j)])])

\* x + y in float64
FAdd(x, y) ==
    IF x = NaN \/ y = NaN THEN NaN
    ELSE IF x = Inf \/ y = Inf THEN Inf
    ELSE x + y

\* x * y in float64 (inf * 0 is nan)
FMul(x, y) ==
    IF x = NaN \/ y = NaN THEN NaN
    ELSE IF x = Inf \/ y = Inf THEN (IF x = 0 \/ y = 0 THEN NaN ELSE Inf)
    ELSE (x * y) \div One

\* x / y in float64 (0/0 and inf/inf are nan, x/0 is inf, x/inf is 0)
FDiv(x, y) ==
    IF x = NaN \/ y = NaN THEN NaN
    ELSE IF x = Inf THEN (IF y = Inf THEN NaN ELSE Inf)
    ELSE IF y = Inf THEN 0
    ELSE IF y = 0 THEN (IF x = 0 THEN NaN ELSE Inf)
    ELSE (x * One) \div y

RECURSIVE FSum(_, _)
\* row[1] + ... + row[n], summed left to right
FSum(row, n) == IF n = 0 THEN 0 ELSE FAdd(FSum(row, n - 1), row[n])

\* True where the matrix holds a nan or an inf
HasNonFinite(M) == \E i \in Idx, j \in Idx : M[i][j] \in {NaN, Inf}

\* floor(DistUnit * ln(One / v)) for v = 1..One: exp(-x) >= v/One iff x <= ln(One/v)
LnTable == << 2772, 2079, 1673, 1386, 1163, 980, 826, 693,
              575, 470, 374, 287, 207, 133, 64, 0 >>

\* np.exp(-1 * x) for a scaled distance x >= 0 (nan stays nan, exp(-inf) = 0)
ExpNeg(x) ==
    IF x = NaN THEN NaN
    ELSE IF x = Inf THEN 0
    ELSE LET S == {v \in 1..One : x <= LnTable[v]}
         IN  IF S = {} THEN 0 ELSE CHOOSE v \in S : \A w \in S : w <= v

RECURSIVE DistPow(_, _)
\* x ** a for a scaled distance x and an integer a >= 1
DistPow(x, av) ==
    IF x \in {NaN, Inf} THEN x
    ELSE IF av = 1 THEN Min(x, DistCap)
    ELSE Min((DistPow(x, av - 1) * x) \div DistUnit, DistCap)

\* d / e for a distance d and a bandwidth e (numpy: 0/0 = nan, d/0 = inf)
DistDiv(d, e) ==
    IF e = 0 THEN (IF d = 0 THEN NaN ELSE Inf)
    ELSE Min((d * DistUnit) \div e, DistCap)

\* ---------------------------------------------------------------- inputs
\* input matrices (n x 1): distinct points, an exact duplicate pair next to
\* other points, and one point repeated n times
Line == [i \in Idx |-> Min(i - 1, 2)]
Pair == [i \in Idx |-> IF i <= 2 THEN 0 ELSE Min(i - 2, 2)]
Same == [i \in Idx |-> 0]
DataSets == {Line, Pair, Same}
AValues == {2, 10}
KValues == {1, 2}
MetricValues == {"euclidean", "sqeuclidean"}
\* the kernel settings (a, k, knn_dist) a pipeline is given: one setting and
\* one change of each of its three parameters
KernelSettings ==
    {<<10, 2, "euclidean">>, <<2, 2, "euclidean">>, <<10, 1, "euclidean">>,
     <<10, 2, "sqeuclidean">>}
TValues == {1, 2}
NdimValues == {2, 3}
MdsValues == {"metric", "classic"}
MdsDistValues == {"euclidean", "cosine"}
NjobsValues == {1, 2}
SeedValues == {<<7>>}
\* an optional argument: None or a value of S
Opt(S) == {None} \cup {<<v>> : v \in S}
OptStr(S) == {NoneStr} \cup S

\* np.all(X == Y) for two input matrices of one shape
ArrayEq(X, Y) == \A i \in Idx : X[i] = Y[i]

\* ------------------------------------------------------- calculate_kernel
\* scipy pdist for one pair of 1-column rows
PDist(x, y, metric) ==
    IF metric = "sqeuclidean" THEN (x - y) * (x - y) ELSE Abs(x - y)

\* squareform(pdist(M, metric=knn_dist))
Pdx(M, metric) == Matrix(LAMBDA i, j : PDist(M[i], M[j], metric))

\* np.sort(row)[k], k counted from 0
KthSmallest(row, kv) ==
    CHOOSE v \in {row[j] : j \in Idx} :
        /\ Cardinality({j \in Idx : row[j] < v}) <= kv
        /\ Cardinality({j \in Idx : row[j] <= v}) > kv

\* epsilon = knn_dist[:, k]: the distance to the k-th neighbour of each point
Epsilon(pdx, kv) == Array([i \in Idx |-> KthSmallest(pdx[i], kv)])

\* (pdx / epsilon).T: column j is divided by epsilon[j], then transposed
ScaledPdx(pdx, eps) == Matrix(LAMBDA i, j : DistDiv(pdx[j][i], eps[i]))

\* numpy emits a RuntimeWarning for the division when some bandwidth is zero
DivisionWarns(eps) == \E j \in Idx : eps[j] = 0

\* pdx = (pdx / epsilon).T with epsilon = np.sort(pdx, axis=1)[:, k]
AutoTune(pdx, kv) == ScaledPdx(pdx, Epsilon(pdx, kv))

\* np.exp(-1 * (pdx ** a))
ExpKernel(sc, av) == Matrix(LAMBDA i, j : ExpNeg(DistPow(sc[i][j], av)))

\* gs_ker + gs_ker.T
Symmetrize(g) == Matrix(LAMBDA i, j : FAdd(g[i][j], g[j][i]))

\* the array calculate_kernel returns when no exception stops it
KernelMatrix(M, av, kv, metric) ==
    Symmetrize(ExpKernel(AutoTune(Pdx(M, metric), kv), av))

\* the kernels and bandwidths of the inputs tried, each computed once
KernelMemo ==
    Array([M \in DataSets, av \in AValues, kv \in KValues, m \in MetricValues |->
        [warns |-> DivisionWarns(Epsilon(Pdx(M, m), kv)),
         gs_ker |-> KernelMatrix(M, av, kv, m)]])

\* calculate_kernel.  werr: the warnings filter turns the RuntimeWarning into
\* an exception (python -W error); by default it is only printed and the
\* except clause never runs.
calculate_kernel(M, av, kv, metric, werr) ==
    IF werr /\ KernelMemo[M, av, kv, metric].warns
    THEN [raised |-> "ValueError", gs_ker |-> None]
    ELSE [raised |-> NoneStr, gs_ker |-> KernelMemo[M, av, kv, metric].gs_ker]

\* ----------------------------------------------------- calculate_operator
\* gs_ker / gs_ker.sum(axis=1)[:, None]
RowNormalize(K) == Matrix(LAMBDA i, j : FDiv(K[i][j], FSum(K[i], N)))

\* calculate_operator normalising the affinity it is given even when an
\* operator comes with it
calculate_operator_renormalizes(data, av, kv, metric, ker, op, werr) ==
    IF ker = None
    THEN IF calculate_kernel(data, av, kv, metric, werr).raised # NoneStr
         THEN [raised |-> calculate_kernel(data, av, kv, metric, werr).raised,
               gs_ker |-> None, diff_op |-> None, kernels |-> 1, norms |-> 0]
         ELSE [raised |-> NoneStr,
               gs_ker |-> calculate_kernel(data, av, kv, metric, werr).gs_ker,
               diff_op |-> RowNormalize(
                   calculate_kernel(data, av, kv, metric, werr).gs_ker),
               kernels |-> 1, norms |-> 1]
    ELSE [raised |-> NoneStr, gs_ker |-> ker, diff_op |-> RowNormalize(ker),
          kernels |-> 0, norms |-> 1]

\* calculate_operator(data, a, k, knn_dist, gs_ker, diff_op): the returned
\* pair, the exception raised, and how often each stage ran
calculate_operator(data, av, kv, metric, ker, op, werr) ==
    IF ker = None
    THEN \* diff_op = None; gs_ker = calculate_kernel(...)
         IF calculate_kernel(data, av, kv, metric, werr).raised # NoneStr
         THEN [raised |-> calculate_kernel(data, av, kv, metric, werr).raised,
               gs_ker |-> None, diff_op |-> None, kernels |-> 1, norms |-> 0]
         ELSE [raised |-> NoneStr,
               gs_ker |-> calculate_kernel(data, av, kv, metric, werr).gs_ker,
               diff_op |-> RowNormalize(
                   calculate_kernel(data, av, kv, metric, werr).gs_ker),
               kernels |-> 1, norms |-> 1]
    ELSE IF op = None
    THEN [raised |-> NoneStr, gs_ker |-> ker, diff_op |-> RowNormalize(ker),
          kernels |-> 0, norms |-> 1]
    ELSE [raised |-> NoneStr, gs_ker |-> ker, diff_op |-> op,
          kernels |-> 0, norms |-> 0]

\* -------------------------------------------------------------- embed_mds
\* A . B
MatMul(A, B) ==
    Matrix(LAMBDA i, j : FSum([l \in Idx |-> FMul(A[i][l], B[l][j])], N))

RECURSIVE matrix_power(_, _)
\* np.linalg.matrix_power(diff_op, t) for t >= 1; for t = 1 numpy returns
\* its argument, the very array diff_op
matrix_power(A, tv) ==
    IF tv = 1 THEN A ELSE MatMul(matrix_power(A, tv - 1), A)

\* X[X == 0] = eps; X[X <= eps] = eps (nan compares false and stays)
FloorEps(P) ==
    Matrix(LAMBDA i, j : IF P[i][j] \notin {NaN, Inf} /\ P[i][j] <= MachEps
                         THEN MachEps ELSE P[i][j])

\* -1 * np.log(X): the logarithm is injective, the potential is kept as the
\* matrix it is the negative logarithm of
NegLog(P) == <<"neglog", P>>

\* lines 155-161: the diffusion potential of an operator
Potential(op, tv) == NegLog(FloorEps(matrix_power(op, tv)))

\* the external collaborator embed_MDS: a deterministic function of its
\* arguments, kept as the term of the call
embed_MDS(pot, nd, how, metric, nj, seed) ==
    <<"mds", pot, nd, how, metric, nj, seed>>

\* embed_mds(diff_op, t, n_components, diff_potential, embedding, mds,
\* mds_dist, njobs, random_state): the returned pair, the operator array
\* after the call (line 158 writes into it when the power is the array
\* itself), and how often each stage ran
embed_mds(op, tv, nd, pot, emb, how, metric, nj, seed) ==
    IF pot = None
    THEN [embedding |-> embed_MDS(Potential(op, tv), nd, how, metric, nj, seed),
          diff_potential |-> Potential(op, tv),
          diff_op |-> IF tv = 1 THEN FloorEps(op) ELSE op,
          pots |-> 1, mdss |-> 1]
    ELSE IF emb = None
    THEN [embedding |-> embed_MDS(pot, nd, how, metric, nj, seed),
          diff_potential |-> pot, diff_op |-> op, pots |-> 0, mdss |-> 1]
    ELSE [embedding |-> emb, diff_potential |-> pot, diff_op |-> op,
          pots |-> 0, mdss |-> 0]

\* ------------------------------------------------------------ class PHATE
VARIABLES
    ndim, a, k, t, mds, knn_dist, mds_dist, njobs, random_state, \* settings
    n_components,   \* the attribute reset_mds writes (unset after __init__)
    gs_ker, diff_op, diff_potential, embedding, X,               \* caches
    ret             \* the last call: its name, its arguments (of a direct
                    \* call of a module function), the exception raised, the
                    \* value returned, whether fit took the branch of line
                    \* 307, and how often the call ran each stage

params == <<ndim, a, k, t, mds, knn_dist, mds_dist, njobs, random_state,
            n_components>>
caches == <<gs_ker, diff_op, diff_potential, embedding, X>>
vars == <<params, caches, ret>>

\* the record of a call
Call(op, args, raised, value, cleared, kernels, norms, pots, mdss) ==
    [op |-> op, args |-> args, raised |-> raised, value |-> value,
     cleared |-> cleared, kernels |-> kernels, norms |-> norms,
     pots |-> pots, mdss |-> mdss]

\* the record of a call that runs no stage
Plain(op, raised, value) ==
    Call(op, None, raised, value, FALSE, 0, 0, 0, 0)

\* PHATE.__init__(n_components, a, k, t, mds, knn_dist, mds_dist, njobs,
\* random_state)
PhateInit(nc, a0, k0, t0, how, metric, mmetric, nj, seed) ==
    /\ ndim = nc
    /\ a = a0
    /\ k = k0
    /\ t = t0
    /\ mds = how
    /\ knn_dist = metric
    /\ mds_dist = mmetric
    /\ njobs = 1
    /\ random_state = seed
    /\ n_components = None
    /\ gs_ker = None
    /\ diff_op = None
    /\ diff_potential = None
    /\ embedding = None
    /\ X = None
    /\ ret = Call("__init__", [njobs |-> nj, random_state |-> seed], NoneStr,
                  None, FALSE, 0, 0, 0, 0)

\* a pipeline constructed with the default MDS settings
Init ==
    \E ks \in KernelSettings, t0 \in TValues, nj \in NjobsValues,
       seed \in SeedValues :
        PhateInit(2, ks[1], ks[2], t0, "metric", ks[3], "euclidean", nj, seed)

\* attribute assignment (set_params) of the kernel-construction parameters
SetKernelParams(a1, k1, metric1) ==
    /\ a' = a1
    /\ k' = k1
    /\ knn_dist' = metric1
    /\ ret' = Plain("set_params", NoneStr, None)
    /\ UNCHANGED <<ndim, t, mds, mds_dist, njobs, random_state, n_components>>
    /\ UNCHANGED caches

\* reset_mds dropping the potential as well
ResetMdsClearsPotential(nc, how, metric) ==
    /\ n_components' = IF nc # None THEN nc ELSE n_components
    /\ mds' = IF how # NoneStr THEN how ELSE mds
    /\ mds_dist' = IF metric = NoneStr THEN metric ELSE mds_dist
    /\ embedding' = None
    /\ diff_potential' = None
    /\ ret' = Plain("reset_mds", NoneStr, None)
    /\ UNCHANGED <<ndim, a, k, t, knn_dist, njobs, random_state>>
    /\ UNCHANGED <<gs_ker, diff_op, X>>

\* PHATE.reset_mds
ResetMds(nc, how, metric) ==
    /\ n_components' = IF nc # None THEN nc ELSE n_components
    /\ mds' = IF how # NoneStr THEN how ELSE mds
    /\ mds_dist' = IF metric = NoneStr THEN metric ELSE mds_dist
    /\ embedding' = None
    /\ ret' = Plain("reset_mds", NoneStr, None)
    /\ UNCHANGED <<ndim, a, k, t, knn_dist, njobs, random_state>>
    /\ UNCHANGED <<gs_ker, diff_op, diff_potential, X>>

\* reset_diffusion ignoring its argument
ResetDiffusionKeepsT(targ) ==
    /\ diff_potential' = None
    /\ ret' = Plain("reset_diffusion", NoneStr, None)
    /\ UNCHANGED params
    /\ UNCHANGED <<gs_ker, diff_op, embedding, X>>

\* PHATE.reset_diffusion
ResetDiffusion(targ) ==
    /\ t' = IF targ # None THEN targ[1] ELSE t
    /\ diff_potential' = None
    /\ ret' = Plain("reset_diffusion", NoneStr, None)
    /\ UNCHANGED <<ndim, a, k, mds, knn_dist, mds_dist, njobs, random_state,
                   n_components>>
    /\ UNCHANGED <<gs_ker, diff_op, embedding, X>>

\* fit taking every input for a new one once an input is stored
InputChangedAlways(stX, Xin) == stX # None

\* fit, line 307: a previous input exists and differs from the new one
InputChanged(stX, Xin) == stX # None /\ ~ArrayEq(Xin, stX)

\* fit leaving the potential of the old input in place
FitClearedKeepsPotential(Xin) ==
    IF InputChanged(X, Xin)
    THEN [gs_ker |-> None, diff_op |-> None, diff_potential |-> diff_potential,
          embedding |-> None, cleared |-> TRUE]
    ELSE [gs_ker |-> gs_ker, diff_op |-> diff_op,
          diff_potential |-> diff_potential,
          embedding |-> embedding, cleared |-> FALSE]

\* fit leaving the embedding of the old input in place
FitClearedKeepsEmbedding(Xin) ==
    IF InputChanged(X, Xin)
    THEN [gs_ker |-> None, diff_op |-> None, diff_potential |-> None,
          embedding |-> embedding, cleared |-> TRUE]
    ELSE [gs_ker |-> gs_ker, diff_op |-> diff_op,
          diff_potential |-> IF gs_ker = None \/ diff_op = None
                             THEN None ELSE diff_potential,
          embedding |-> embedding, cleared |-> FALSE]

\* fit, lines 307-318: the caches when calculate_operator is called
FitCleared(Xin) ==
    IF InputChanged(X, Xin)
    THEN [gs_ker |-> None, diff_op |-> None, diff_potential |-> None,
          embedding |-> None, cleared |-> TRUE]
    ELSE [gs_ker |-> gs_ker, diff_op |-> diff_op,
          diff_potential |-> IF gs_ker = None \/ diff_op = None
                             THEN None ELSE diff_potential,
          embedding |-> embedding, cleared |-> FALSE]

\* fit, lines 319-323: the caches after the call, from the caches c before
\* calculate_operator and the outcome r of calculate_operator
FitAssign(Xin, c, r) ==
    [gs_ker |-> IF r.raised = NoneStr THEN r.gs_ker ELSE c.gs_ker,
     diff_op |-> IF r.raised = NoneStr THEN r.diff_op ELSE c.diff_op,
     diff_potential |-> c.diff_potential,
     embedding |-> c.embedding,
     X |-> Xin,
     raised |-> r.raised, cleared |-> c.cleared,
     kernels |-> r.kernels, norms |-> r.norms]

\* fit, lines 319-322: the call of calculate_operator
FitOperator(Xin, c, werr) ==
    FitAssign(Xin, c, calculate_operator(Xin, a, k, knn_dist, c.gs_ker,
                                         c.diff_op, werr))

\* the caches after fit(Xin) and the outcome of the call
FitResult(Xin, werr) == FitOperator(Xin, FitCleared(Xin), werr)

\* PHATE.fit
Fit(Xin, werr) ==
    \E f \in {FitResult(Xin, werr)} :
        /\ gs_ker' = f.gs_ker
        /\ diff_op' = f.diff_op
        /\ diff_potential' = f.diff_potential
        /\ embedding' = f.embedding
        /\ X' = f.X
        /\ ret' = Call("fit", None, f.raised, None, f.cleared, f.kernels,
                       f.norms, 0, 0)
        /\ UNCHANGED params

\* transform without the out-of-sample test
TransformGuardInSample(stX, stOp, Xarg) ==
    IF stOp = None THEN "NotFittedError" ELSE NoneStr

\* transform taking an input given to an unfitted pipeline for a new one
TransformGuardFresh(stX, stOp, Xarg) ==
    IF Xarg # None /\ (stX = None \/ ~ArrayEq(Xarg, stX))
    THEN "RuntimeWarning"
    ELSE IF stOp = None THEN "NotFittedError"
    ELSE NoneStr

\* transform, lines 343-356: the exception the guards raise, if any
TransformGuard(stX, stOp, Xarg) ==
    IF stX # None /\ Xarg # None /\ ~ArrayEq(Xarg, stX) THEN "RuntimeWarning"
    ELSE IF stOp = None THEN "NotFittedError"
    ELSE NoneStr

\* transform, lines 357-360: the diffusion time used
TransformT(stT, targ) == IF targ = None THEN stT ELSE targ[1]

\* PHATE.transform
Transform(Xarg, targ) ==
    \E g \in {TransformGuard(X, diff_op, Xarg)}, tt \in {TransformT(t, targ)} :
    \E e \in {IF g # NoneStr THEN None
              ELSE embed_mds(diff_op, tt, ndim, diff_potential, embedding,
                             mds, mds_dist, njobs, random_state)} :
        IF g # NoneStr
        THEN /\ ret' = Plain("transform", g, None)
             /\ UNCHANGED <<params, caches>>
        ELSE /\ t' = tt
             /\ embedding' = e.embedding
             /\ diff_potential' = e.diff_potential
             /\ diff_op' = e.diff_op
             /\ ret' = Call("transform", None, NoneStr, e.embedding, FALSE,
                            0, 0, e.pots, e.mdss)
             /\ UNCHANGED <<ndim, a, k, mds, knn_dist, mds_dist, njobs,
                            random_state, n_components>>
             /\ UNCHANGED <<gs_ker, X>>

\* PHATE.fit_transform: fit(X), then transform(t=t), then return self.embedding
FitTransform(Xin, targ, werr) ==
    \E f \in {FitResult(Xin, werr)}, tt \in {TransformT(t, targ)} :
    \E failed \in {IF f.raised # NoneStr THEN f.raised
                   ELSE TransformGuard(f.X, f.diff_op, None)} :
    \E e \in {IF failed # NoneStr THEN None
              ELSE embed_mds(f.diff_op, tt, ndim, f.diff_potential,
                             f.embedding, mds, mds_dist, njobs, random_state)} :
        /\ X' = f.X
        /\ gs_ker' = f.gs_ker
        /\ UNCHANGED <<ndim, a, k, mds, knn_dist, mds_dist, njobs,
                       random_state, n_components>>
        /\ IF failed # NoneStr
           THEN /\ diff_op' = f.diff_op
                /\ diff_potential' = f.diff_potential
                /\ embedding' = f.embedding
                /\ t' = t
                /\ ret' = Call("fit_transform", None, failed, None, f.cleared,
                               f.kernels, f.norms, 0, 0)
           ELSE /\ diff_op' = e.diff_op
                /\ diff_potential' = e.diff_potential
                /\ embedding' = e.embedding
                /\ t' = tt
                /\ ret' = Call("fit_transform", None, NoneStr, e.embedding,
                               f.cleared, f.kernels, f.norms, e.pots, e.mdss)

\* the i-th entropy value: a function of the singular values of the
\* degree-normalised affinity and of the power i
EntropyAt(K, i) == <<"entropy", K, i>>

RECURSIVE EntropyLoopStale(_, _, _)
\* the loop without the update of eigenvalues_t
EntropyLoopStale(K, left, power) ==
    IF left = 0 THEN <<>>
    ELSE <<EntropyAt(K, power)>> \o EntropyLoopStale(K, left - 1, power)

RECURSIVE EntropyLoop(_, _, _)
\* lines 427-431: the values the loop appends in its last `left` rounds,
\* eigenvalues_t being the spectrum raised to `power` when they start
EntropyLoop(K, left, power) ==
    IF left = 0 THEN <<>>
    ELSE <<EntropyAt(K, power)>> \o EntropyLoop(K, left - 1, power + 1)

\* PHATE.von_neumann_entropy
VonNeumannEntropy(t_max) ==
    /\ ret' = IF gs_ker = None
              THEN Call("von_neumann_entropy", [t_max |-> t_max],
                        "NotFittedError", None, FALSE, 0, 0, 0, 0)
              ELSE Call("von_neumann_entropy", [t_max |-> t_max], NoneStr,
                        EntropyLoop(gs_ker, t_max, 1), FALSE, 0, 0, 0, 0)
    /\ UNCHANGED <<params, caches>>

Next ==
    \/ \E ks \in KernelSettings : SetKernelParams(ks[1], ks[2], ks[3])
    \/ \E how \in OptStr(MdsValues), metric \in OptStr(MdsDistValues) :
           ResetMds(None, how, metric)
    \/ \E targ \in Opt(TValues) : ResetDiffusion(targ)
    \/ \E Xin \in DataSets, werr \in BOOLEAN : Fit(Xin, werr)
    \/ \E Xarg \in DataSets \cup {None}, targ \in Opt(TValues) :
           Transform(Xarg, targ)
    \/ \E Xin \in DataSets, targ \in Opt(TValues), werr \in BOOLEAN :
           FitTransform(Xin, targ, werr)
    \/ \E t_max \in TValues : VonNeumannEntropy(t_max)

Spec == Init /\ [][Next]_vars

\* ------------------------------------- the pipeline and its MDS settings
\* fit, transform and reset_mds with each of its three arguments given or
\* left out
NextMds ==
    \/ \E nc \in Opt(NdimValues), how \in OptStr(MdsValues),
          metric \in OptStr(MdsDistValues) : ResetMds(nc, how, metric)
    \/ \E Xin \in DataSets : Fit(Xin, FALSE)
    \/ \E targ \in Opt(TValues) : Transform(None, targ)

SpecMds == Init /\ [][NextMds]_vars

\* --------------------------------- the module functions, called directly
\* a precomputed affinity whose first point is isolated: its row sums to 0
ZeroRowKernel == Matrix(LAMBDA i, j : IF i = 1 \/ j = 1 THEN 0 ELSE One)

\* precomputed kernels and operators a caller hands to calculate_operator
KernelArgs ==
    {None, ZeroRowKernel}
    \cup {KernelMatrix(Line, av, 1, "euclidean") : av \in AValues}
OperatorArgs ==
    {None} \cup {RowNormalize(KernelMatrix(Line, 2, kv, "euclidean")) :
                    kv \in KValues}

\* calculate_operator(data, a, k, knn_dist, gs_ker, diff_op)
CallCalculateOperator(data, av, kv, metric, ker, op, werr) ==
    \E r \in {calculate_operator(data, av, kv, metric, ker, op, werr)} :
        /\ ret' = Call("calculate_operator",
                       [data |-> data, a |-> av, k |-> kv, knn_dist |-> metric,
                        gs_ker |-> ker, diff_op |-> op],
                       r.raised, <<r.gs_ker, r.diff_op>>, FALSE,
                       r.kernels, r.norms, 0, 0)
        /\ UNCHANGED <<params, caches>>

\* calculate_kernel(M, a, k, knn_dist)
CallCalculateKernel(data, av, kv, metric, werr) ==
    \E r \in {calculate_kernel(data, av, kv, metric, werr)} :
        /\ ret' = Call("calculate_kernel",
                       [data |-> data, a |-> av, k |-> kv, knn_dist |-> metric,
                        gs_ker |-> None, diff_op |-> None],
                       r.raised, r.gs_ker, FALSE, 1, 0, 0, 0)
        /\ UNCHANGED <<params, caches>>

NextFn ==
    \/ \E data \in DataSets, av \in AValues, kv \in KValues,
          metric \in MetricValues, ker \in KernelArgs, op \in OperatorArgs,
          werr \in BOOLEAN :
           CallCalculateOperator(data, av, kv, metric, ker, op, werr)
    \/ \E data \in DataSets, av \in AValues, kv \in KValues,
          metric \in MetricValues, werr \in BOOLEAN :
           CallCalculateKernel(data, av, kv, metric, werr)

SpecFn == Init /\ [][NextFn]_vars

\* ----------------------------------------------------------------- claims
\* the kernel calculate_kernel builds for the stored input and settings
CurrentKernel == KernelMatrix(X, a, k, knn_dist)

\* the embedding the MDS settings in force give for a potential
CurrentMds(pot) == embed_MDS(pot, ndim, mds, mds_dist, njobs, random_state)

\* C1: on a pipeline whose potential and embedding are cached (here: from an
\* operator without nan), a successful transform(t=t1) with t1 different
\* from the stored t recomputes both from the operator raised to t1 and
\* returns the embedding for t1, and builds neither the kernel nor the
\* operator.
C1_TransformNewT ==
    [][(/\ ret'.op = "transform"
        /\ ret'.raised = NoneStr
        /\ t' # t
        /\ diff_potential # None
        /\ embedding # None
        /\ ~HasNonFinite(diff_op))
       => (/\ diff_potential' = Potential(diff_op, t')
           /\ ret'.value = embed_MDS(Potential(diff_op, t'), ndim, mds,
                                     mds_dist, njobs, random_state)
           /\ embedding' = ret'.value
           /\ ret'.pots = 1
           /\ ret'.mdss = 1
           /\ ret'.kernels = 0
           /\ ret'.norms = 0
           /\ gs_ker' = gs_ker)]_vars

\* C2: after a successful fit the cached affinity is the kernel of the stored
\* input under the current a, k and knn_dist (a fit that follows a change of
\* one of them rebuilds it), and the cached operator is its normalisation.
C2_FitUsesCurrentParams ==
    (ret.op = "fit" /\ ret.raised = NoneStr)
    => (/\ gs_ker = CurrentKernel
        /\ diff_op \in {RowNormalize(CurrentKernel),
                        FloorEps(RowNormalize(CurrentKernel))})

\* C3: fit(X) with X element-wise equal to the stored input, on a pipeline
\* whose affinity and operator are cached, builds no kernel, normalises
\* nothing and leaves the four caches and the stored input as they were.
C3_RefitIsIdempotent ==
    [][(/\ ret'.op = "fit"
        /\ X # None
        /\ ArrayEq(X', X)
        /\ gs_ker # None
        /\ diff_op # None)
       => (/\ ret'.raised = NoneStr
           /\ ret'.kernels = 0
           /\ ret'.norms = 0
           /\ UNCHANGED caches)]_vars

\* C3 witness: a fit that built no kernel and normalised nothing
C3_Witness ==
    /\ ret.op = "fit"
    /\ ret.raised = NoneStr
    /\ ret.kernels = 0
    /\ ret.norms = 0
    /\ embedding # None

\* C4: on a pipeline with a stored input X, transform(Y) with Y different
\* from X raises the out-of-sample error, returns nothing and changes
\* nothing, for every t and whatever is cached.
C4_OutOfSampleFails ==
    [][\A Y \in DataSets, targ \in Opt(TValues) :
          (X # None /\ ~ArrayEq(Y, X) /\ Transform(Y, targ))
          => (/\ ret'.raised = "RuntimeWarning"
              /\ ret'.value = None
              /\ UNCHANGED <<params, caches>>)]_vars

\* C4 witness: the out-of-sample error on a pipeline with every cache filled
C4_Witness ==
    /\ ret.op = "transform"
    /\ ret.raised = "RuntimeWarning"
    /\ gs_ker # None
    /\ diff_op # None
    /\ diff_potential # None
    /\ embedding # None

\* C5: while fit has never been called (no input is stored), transform and
\* von_neumann_entropy raise NotFittedError and return nothing.
C5_NotFitted ==
    (X = None /\ ret.op \in {"transform", "von_neumann_entropy"})
    => (ret.raised = "NotFittedError" /\ ret.value = None)

\* C5 witness: transform has failed on a pipeline that was never fitted
C5_Witness ==
    /\ X = None
    /\ ret.op = "transform"
    /\ ret.raised = "NotFittedError"

\* C6: fit(X') with X' different from the stored input clears the four
\* caches before it recomputes: when it succeeds the affinity and operator
\* are the ones built from X' and the potential and embedding are absent;
\* when it fails all four are absent.
C6_FitNewInput ==
    [][(ret'.op = "fit" /\ X # None /\ ~ArrayEq(X', X))
       => (/\ ret'.cleared
           /\ ret'.kernels = 1
           /\ diff_potential' = None
           /\ embedding' = None
           /\ IF ret'.raised = NoneStr
              THEN /\ gs_ker' = KernelMatrix(X', a, k, knn_dist)
                   /\ diff_op' = RowNormalize(gs_ker')
                   /\ ret'.norms = 1
              ELSE gs_ker' = None /\ diff_op' = None)]_vars

\* C6 witness: a successful fit that took the branch of line 307
C6_Witness ==
    /\ ret.op = "fit"
    /\ ret.cleared
    /\ ret.raised = NoneStr
    /\ gs_ker # None
    /\ diff_op # None

C8_ResetMds ==
    [][/\ \A nc \in Opt(NdimValues), how \in OptStr(MdsValues),
             metric \in OptStr(MdsDistValues) :
             ResetMds(nc, how, metric)
             => (/\ embedding' = None
                 /\ gs_ker' = gs_ker
                 /\ diff_op' = diff_op
                 /\ diff_potential' = diff_potential)
       /\ (/\ ret.op = "reset_mds"
           /\ diff_potential # None
           /\ ret'.op = "transform"
           /\ ret'.raised = NoneStr)
          => (/\ ret'.kernels = 0
              /\ ret'.norms = 0
              /\ ret'.pots = 0
              /\ ret'.mdss = 1
              /\ gs_ker' = gs_ker
              /\ diff_op' = diff_op
              /\ diff_potential' = diff_potential
              /\ embedding' = CurrentMds(diff_potential)
              /\ ret'.value = embedding')]_vars

\* C8 witness: a transform that only ran the MDS collaborator
C8_Witness ==
    /\ ret.op = "transform"
    /\ ret.raised = NoneStr
    /\ ret.pots = 0
    /\ ret.mdss = 1

\* the bandwidth of some point of the input of the last call is zero
ZeroBandwidth ==
    DivisionWarns(Epsilon(Pdx(ret.args.data, ret.args.knn_dist), ret.args.k))

\* C9 as claimed: whenever calculate_operator is given an operator override
\* it returns the override and builds no kernel and normalises nothing,
\* with or without a precomputed affinity.
C9_OverrideAlways ==
    (ret.op = "calculate_operator" /\ ret.args.diff_op # None)
    => (/\ ret.raised = NoneStr
        /\ ret.value[2] = ret.args.diff_op
        /\ ret.kernels = 0
        /\ ret.norms = 0)

\* C9 as amended: given an operator override together with a precomputed
\* affinity, calculate_operator returns both unchanged, builds no kernel and
\* normalises nothing; given an override without an affinity it discards
\* the override, builds the kernel and, unless that raises, returns the
\* normalised kernel.
C9_OverrideWithKernel ==
    (ret.op = "calculate_operator" /\ ret.args.diff_op # None)
    => IF ret.args.gs_ker # None
       THEN /\ ret.raised = NoneStr
            /\ ret.value = <<ret.args.gs_ker, ret.args.diff_op>>
            /\ ret.kernels = 0
            /\ ret.norms = 0
       ELSE /\ ret.kernels = 1
            /\ ret.raised = NoneStr
               => (/\ ret.norms = 1
                   /\ ret.value[1] = KernelMatrix(ret.args.data, ret.args.a,
                                                  ret.args.k, ret.args.knn_dist)
                   /\ ret.value[2] = RowNormalize(ret.value[1]))

\* C9 witness: an override returned next to a precomputed affinity
C9_Witness ==
    /\ ret.op = "calculate_operator"
    /\ ret.args.diff_op # None
    /\ ret.args.gs_ker # None
    /\ ret.value[2] = ret.args.diff_op

\* C10: whenever the bandwidth of some point is zero calculate_kernel raises
\* the duplicate-data error and returns nothing; it never returns a matrix
\* with a nan or an inf.
C10_DuplicatesRaise ==
    (ret.op = "calculate_kernel")
    => (/\ ZeroBandwidth => (ret.raised = "ValueError" /\ ret.value = None)
        /\ ret.value # None => ~HasNonFinite(ret.value))

\* the affinity the last call of calculate_operator had to normalise
NormalizedKernel ==
    IF ret.args.gs_ker # None THEN ret.args.gs_ker
    ELSE KernelMatrix(ret.args.data, ret.args.a, ret.args.k, ret.args.knn_dist)

\* the entries of a row add up to 1.0, up to the rounding of n divisions
RowSumsToOne(row) ==
    /\ FSum(row, N) \notin {NaN, Inf}
    /\ Abs(FSum(row, N) - One) <= N * MachEps

\* C11: when calculate_operator normalises an affinity of finite entries (no
\* operator override is used, the kernel was built or given), it raises the
\* degenerate-kernel error and returns nothing if some row of the affinity
\* sums to zero, and otherwise returns an operator whose every row sums to 1.
C11_DegenerateKernel ==
    (/\ ret.op = "calculate_operator"
     /\ (ret.args.gs_ker = None \/ ret.args.diff_op = None)
     /\ ret.raised # "ValueError"
     /\ ~HasNonFinite(NormalizedKernel))
    => IF \E i \in Idx : FSum(NormalizedKernel[i], N) = 0
       THEN ret.raised = "DegenerateKernelError" /\ ret.value[2] = None
       ELSE /\ ret.raised = NoneStr
            /\ \A i \in Idx : RowSumsToOne(ret.value[2][i])

\* the matrix the potential is the negative logarithm of
LogArgument(pot) == pot[2]

\* C12: when transform computes the potential, every entry of operator^t
\* that is not greater than machine epsilon is replaced by machine epsilon,
\* every other entry is kept, and every entry the logarithm is taken of is
\* finite and at least machine epsilon.
C12_PotentialFinite ==
    [][(ret'.op = "transform" /\ ret'.pots = 1)
       => \A i \in Idx, j \in Idx :
            /\ LogArgument(diff_potential')[i][j] \notin {NaN, Inf}
            /\ LogArgument(diff_potential')[i][j] >= MachEps
            /\ LogArgument(diff_potential')[i][j] =
                 IF matrix_power(diff_op, t')[i][j] <= MachEps THEN MachEps
                 ELSE matrix_power(diff_op, t')[i][j]]_vars

\* x == y in float64: nan equals nothing, itself included
FEq(x, y) == x # NaN /\ y # NaN /\ x = y

\* x >= 0 in float64: false for nan
FNonNegative(x) == x # NaN /\ (x = Inf \/ x >= 0)

\* C13: every matrix calculate_kernel returns is exactly symmetric and has
\* only non-negative entries.
C13_KernelSymmetric ==
    (ret.op = "calculate_kernel" /\ ret.value # None)
    => \A i \in Idx, j \in Idx :
         /\ FEq(ret.value[i][j], ret.value[j][i])
         /\ FNonNegative(ret.value[i][j])

C15_PotentialDerived ==
    diff_potential # None
    => (/\ gs_ker # None
        /\ diff_op # None
        /\ \E tv \in TValues : diff_potential = Potential(diff_op, tv))

\* C15 witness: a potential that outlived a fit of the same input
C15_Witness ==
    /\ ret.op = "fit"
    /\ ret.raised = NoneStr
    /\ diff_potential # None
    /\ ~HasNonFinite(diff_op)

\* C16: in every state without a cached operator, the state a failed fit
\* leaves behind included, transform raises NotFittedError and returns
\* nothing, whatever X and t it is given.
C16_NoOperatorNotFitted ==
    [][\A Xarg \in DataSets \cup {None}, targ \in Opt(TValues) :
          (diff_op = None /\ Transform(Xarg, targ))
          => (ret'.raised = "NotFittedError" /\ ret'.value = None)]_vars

\* C17: transform leaves the cached affinity and the cached operator as
\* they were, entry for entry, for every t (t = 1 included).
C17_TransformKeepsOperator ==
    [][ret'.op = "transform" => (gs_ker' = gs_ker /\ diff_op' = diff_op)]_vars

\* C18: reset_mds(n_components, mds, mds_dist) stores each argument that is
\* given as the output dimensionality, the MDS variant and the MDS distance
\* metric and leaves the setting of an argument that is not given unchanged;
\* the transform that follows calls the MDS collaborator with the stored
\* three.
C18_ResetMdsSettings ==
    [][/\ \A nc \in Opt(NdimValues), how \in OptStr(MdsValues),
             metric \in OptStr(MdsDistValues) :
             ResetMds(nc, how, metric)
             => (/\ ndim' = IF nc # None THEN nc[1] ELSE ndim
                 /\ mds' = IF how # NoneStr THEN how ELSE mds
                 /\ mds_dist' = IF metric # NoneStr THEN metric ELSE mds_dist)
       /\ (ret.op = "reset_mds" /\ ret'.op = "transform"
                                /\ ret'.raised = NoneStr)
          => (/\ ret'.mdss = 1
              /\ ret'.value = embed_MDS(diff_potential', ndim, mds, mds_dist,
                                        njobs, random_state))]_vars

\* C19: the njobs and the random seed the constructor is given are the ones
\* the pipeline stores, no call changes them, and every call of the MDS
\* collaborator is handed them.
C19_NjobsPassThrough ==
    [][/\ ret.op = "__init__"
          => (njobs = ret.args.njobs /\ random_state = ret.args.random_state)
       /\ njobs' = njobs
       /\ random_state' = random_state
       /\ ret'.mdss = 1
          => ret'.value = embed_MDS(diff_potential', ndim, mds, mds_dist,
                                   njobs, random_state)]_vars

\* the embedding a pipeline without caches computes from the stored input,
\* the kernel settings, the diffusion time and the MDS settings in force
Uncached ==
    embed_MDS(Potential(RowNormalize(KernelMatrix(X, a, k, knn_dist)), t),
              ndim, mds, mds_dist, njobs, random_state)

\* C20: the embedding a successful transform or fit_transform returns is
\* the one a pipeline without caches computes from the stored input, the
\* current kernel settings, the diffusion time of the call and the current
\* MDS settings.
C20_CachingTransparent ==
    (ret.op \in {"transform", "fit_transform"} /\ ret.raised = NoneStr)
    => ret.value = Uncached

====
